---- MODULE Spec2Model ----
(***************************************************************************)
(* A model of the two algorithmic components of thakii-worker-service:     *)
(*   - VideoSegmentFinder.get_segment_frames_with_stats                    *)
(*     (src/src/video_segment_finder.py), specification SpecVideo;         *)
(*   - SubtitleSegmentFinder.get_subtitle_segments                         *)
(*     (src/src/subtitle_segment_finder.py), specification SpecSubtitle.   *)
(*                                                                         *)
(* A frame is modelled as a uniformly coloured image of                    *)
(* frame_width x frame_height pixels, identified by its gray level.  The   *)
(* capture time of frame k is k * 1000 / fps ms.                           *)
(***************************************************************************)
EXTENDS Integers, Sequences, FiniteSets, TLC

(***************************************************************************)
(* Bounds of the model.                                                    *)
(***************************************************************************)
\* The longest video, in frames.
MaxFrames == 13

\* Width and height of every frame, in pixels.
FrameWidth == 2
FrameHeight == 2

\* The longest list of subtitle parts.
MaxParts == 2

\* The longest list of video segment end times.
MaxBreaks == 2

\* The tasks in the Firestore collection.
MaxTasks == 2

\* The times worker_loop takes up one task.
MaxRuns == 2

(***************************************************************************)
(* Program constants.                                                      *)
(***************************************************************************)
\* Python's None: an argument not given, a variable not set, and what
\* __find_part__ returns when no part holds the timestamp.
None == -1
\* PastFrameChangesTracker keeps the last 5 comparisons.
WindowSize == 5
\* The gray level of every pixel of the blank screen.
Blank == 255
\* os.getenv('VIDEO_THRESHOLD', 15)
DefaultThreshold == 15
\* os.getenv('MIN_CHANGE', 10000)
DefaultMinChange == 10000
\* os.getenv('MIN_SEGMENT_DURATION', 2000)
DefaultMinSegmentDuration == 2000
\* duration_seconds < 60 is a short video.
ShortVideoSeconds == 60
\* duration_seconds > 1800 is a long video.
LongVideoSeconds == 1800

\* The gray levels a frame of the model can have.
GrayLevels == {0, Blank}
\* The frame rates of the model's videos.
FpsValues == {1, 8}
\* The values of the argument min_segment_duration: at 1 frame per second
\* they tell boundaries 1000 ms apart from each other, at 8 they lie on both
\* sides of the 1250 ms between the first two boundaries a video can have.
MinSegmentDurations == {1000, 1500}
\* The values of the argument min_change: one pixel fewer than a frame has,
\* and as many as a frame has.
MinChanges == {FrameWidth * FrameHeight - 1, FrameWidth * FrameHeight}
\* The values of the environment variable MAX_SEGMENTS.
MaxSegmentsValues == {2, 3}

VARIABLES
    pc,                 \* the position of get_segment_frames_with_stats
    args,               \* the arguments VideoSegmentFinder was made with
    env,                \* VIDEO_THRESHOLD, MIN_CHANGE, MIN_SEGMENT_DURATION
    self,               \* the finder: threshold, min_change, min_segment_duration
    video,              \* the video file: opened, fps, total_frames, frames read,
                        \* and the gray levels its frames take
    frame_skip,
    frame_num,
    prev_frame,
    prev_timestamp,
    prev_video_changes, \* PastFrameChangesTracker.prev_frame_changes
    selected_frames,    \* frame number -> frame data
    max_segments,       \* MAX_SEGMENTS as read at the limiting step
    stage,              \* the maps recorded between the post-processing steps
    sub_pc,             \* the position of get_subtitle_segments
    parts,              \* SubtitleSegmentFinder.parts
    video_segment_end_times,
    part_positions,
    start_pos,
    segments,
    idx,                \* the index of the loop get_subtitle_segments is in
    used,               \* per segment built: start_pos, end_pos and the raw text
    find_pc,            \* the position of a call of __find_part__
    find_time,          \* its argument
    found,              \* its result
    worker_pc,          \* the position of worker_loop
    tasks,              \* the Firestore collection: video_id -> status
    video_id,           \* the task worker_loop is on
    writes,             \* per task: the calls of update_video_task_status made
    runs                \* per task: how each process_video ended

videoVars == <<pc, args, env, self, video, frame_skip, frame_num, prev_frame, prev_timestamp,
               prev_video_changes, selected_frames, max_segments, stage>>

subtitleVars == <<sub_pc, parts, video_segment_end_times, part_positions,
                  start_pos, segments, idx, used>>

findVars == <<find_pc, find_time, found>>

workerVars == <<worker_pc, tasks, video_id, writes, runs>>

vars == <<videoVars, subtitleVars, findVars, workerVars>>

(***************************************************************************)
(* Helpers on sets and sequences.                                          *)
(***************************************************************************)
Abs(x) == IF x < 0 THEN -x ELSE x

Max2(a, b) == IF a >= b THEN a ELSE b

MinOfSet(S) == CHOOSE x \in S : \A y \in S : x <= y

MaxOfSet(S) == CHOOSE x \in S : \A y \in S : x >= y

\* sorted(d.keys())
RECURSIVE Sorted(_)
Sorted(S) ==
    IF S = {} THEN <<>>
    ELSE LET m == MinOfSet(S) IN <<m>> \o Sorted(S \ {m})

\* The map d without the keys in K.
Without(d, K) == [k \in (DOMAIN d) \ K |-> d[k]]

\* The map d with key k set to v.
With(d, k, v) == [x \in (DOMAIN d) \cup {k} |-> IF x = k THEN v ELSE d[x]]

(***************************************************************************)
(* PastFrameChangesTracker                                                 *)
(***************************************************************************)
\* __init__: [False, False, False, False, False]
TrackerInit == [i \in 1..WindowSize |-> FALSE]

\* sum([1 if x else 0 for x in changes])
RECURSIVE SumOfChanges(_)
SumOfChanges(changes) ==
    IF changes = <<>> THEN 0
    ELSE (IF Head(changes) THEN 1 ELSE 0) + SumOfChanges(Tail(changes))

\* sum([1 if x else 0 for x in self.prev_frame_changes]) == 0
are_previous_frames_stable(changes) == SumOfChanges(changes) = 0

\* A tracker that, when full, drops the change it is given.
add_frame_change_Newest(changes, has_changed) ==
    LET appended == Append(changes, has_changed)
    IN  IF Len(appended) > WindowSize THEN SubSeq(appended, 1, WindowSize)
        ELSE appended

\* append, then evict the oldest entry when more than 5 are held
add_frame_change(changes, has_changed) ==
    LET appended == Append(changes, has_changed)
    IN  IF Len(appended) > WindowSize THEN Tail(appended) ELSE appended

(***************************************************************************)
(* VideoSegmentFinder                                                      *)
(***************************************************************************)
\* CAP_PROP_POS_MSEC after frame k was read: the capture time of frame k.
Timestamp(fps, k) == (k * 1000) \div fps

\* __compare_frames__: the gray difference of two uniform frames and the
\* number of pixels whose difference exceeds self.threshold.
compare_frames(threshold, width, height, prev, cur) ==
    LET mask == Abs(prev - cur)
    IN  [num_pixels_changed |-> IF mask > threshold THEN width * height ELSE 0,
         mask |-> mask]

\* A sampling that takes a video of exactly 1800 s for a long one.
FrameSkip_Inclusive(fps, total_frames) ==
    LET short == IF fps > 0 THEN total_frames < ShortVideoSeconds * fps ELSE TRUE
        long  == IF fps > 0 THEN total_frames >= LongVideoSeconds * fps ELSE FALSE
    IN  IF short THEN Max2(1, fps \div 4)
        ELSE IF long THEN Max2(1, fps)
        ELSE Max2(1, fps \div 2)

\* DYNAMIC FRAME SAMPLING: duration_seconds = total_frames / fps if fps > 0 else 0
FrameSkip(fps, total_frames) ==
    LET short == IF fps > 0 THEN total_frames < ShortVideoSeconds * fps ELSE TRUE
        long  == IF fps > 0 THEN total_frames > LongVideoSeconds * fps ELSE FALSE
    IN  IF short THEN Max2(1, fps \div 4)
        ELSE IF long THEN Max2(1, fps)
        ELSE Max2(1, fps \div 2)

\* Frame data that shows the frame the video changed to.
SavedFrame_Target(timestamp, prev, cur, results) ==
    [timestamp |-> timestamp, frame |-> cur, next_frame |-> cur,
     mask |-> results.mask, num_pixels_changed |-> results.num_pixels_changed]

\* The frame data saved when a stable run is broken at the current frame.
SavedFrame(timestamp, prev, cur, results) ==
    [timestamp |-> timestamp, frame |-> prev, next_frame |-> cur,
     mask |-> results.mask, num_pixels_changed |-> results.num_pixels_changed]

\* The frame data of the last frame of the video.
LastFrame(timestamp, prev) ==
    [timestamp |-> timestamp, frame |-> prev, next_frame |-> Blank,
     mask |-> prev, num_pixels_changed |-> 0]

\* The frame numbers less than d ms after the boundary last kept.
RECURSIVE ShortAfterKept(_, _, _, _)
ShortAfterKept(selected, nums, kept, d) ==
    IF nums = <<>> THEN {}
    ELSE IF selected[Head(nums)].timestamp - selected[kept].timestamp < d
         THEN {Head(nums)} \cup ShortAfterKept(selected, Tail(nums), kept, d)
         ELSE ShortAfterKept(selected, Tail(nums), Head(nums), d)

\* A filtering that measures each boundary from the boundary last kept.
FramesToRemove_Cascade(selected, min_segment_duration) ==
    LET nums == Sorted(DOMAIN selected)
    IN  IF nums = <<>> THEN {}
        ELSE ShortAfterKept(selected, Tail(nums), Head(nums), min_segment_duration)

\* A filtering that marks nothing.
FramesToRemove_None(selected, min_segment_duration) == {}

\* The frame numbers marked by the segment filtering: the later frame of every
\* adjacent pair less than min_segment_duration apart.
FramesToRemove(selected, min_segment_duration) ==
    LET nums == Sorted(DOMAIN selected)
    IN  { nums[i + 1] : i \in { j \in 1..(Len(nums) - 1) :
            selected[nums[j + 1]].timestamp - selected[nums[j]].timestamp
                < min_segment_duration } }

\* Edge case: delete the first selected frame.
RemoveFirst(selected) ==
    IF DOMAIN selected = {} THEN selected
    ELSE Without(selected, {MinOfSet(DOMAIN selected)})

\* Limit the number of segments: every keep_every-th frame until max_segments
\* are kept, and always the last frame.
LimitSegments(selected, maxseg) ==
    IF Cardinality(DOMAIN selected) > maxseg
    THEN LET frame_nums == Sorted(DOMAIN selected)
             n == Len(frame_nums)
             keep_every == n \div maxseg
             kept == { frame_nums[i * keep_every + 1] :
                         i \in { j \in 0..(maxseg - 1) : j * keep_every < n } }
             keys == kept \cup {frame_nums[n]}
         IN  [k \in keys |-> selected[k]]
    ELSE selected

\* A guarantee that applies only to an empty map.
MinimumSegments_Empty(selected, v) ==
    IF Cardinality(DOMAIN selected) < 1
    THEN LET mid  == v.total_frames \div 2
             ret1 == v.opened /\ 0 < v.total_frames
             ret2 == v.opened /\ mid < v.total_frames
         IN  IF ret1 /\ ret2
             THEN (mid :> [timestamp |-> Timestamp(v.fps, mid), frame |-> v.frames[mid + 1]])
                  @@ (0 :> [timestamp |-> 0, frame |-> v.frames[1]])
             ELSE selected
    ELSE selected

\* Minimum segment guarantee: frame 0 and frame total_frames // 2, read again
\* from the video; kept as it is when either read fails.
MinimumSegments(selected, v) ==
    IF Cardinality(DOMAIN selected) < 2
    THEN LET mid  == v.total_frames \div 2
             ret1 == v.opened /\ 0 < v.total_frames
             ret2 == v.opened /\ mid < v.total_frames
         IN  IF ret1 /\ ret2
             THEN (mid :> [timestamp |-> Timestamp(v.fps, mid), frame |-> v.frames[mid + 1]])
                  @@ (0 :> [timestamp |-> 0, frame |-> v.frames[1]])
             ELSE selected
    ELSE selected

\* x or y: y when x is None or 0, else x.
Or(x, y) == IF x = None \/ x = 0 THEN y ELSE x

\* int(os.getenv(name, default))
Getenv(value, default) == IF value = None THEN default ELSE value

\* VideoSegmentFinder.__init__(threshold, min_change, min_segment_duration)
VideoSegmentFinder(a, e) ==
    [threshold |-> Or(a.threshold, Getenv(e.VIDEO_THRESHOLD, DefaultThreshold)),
     min_change |-> Or(a.min_change, Getenv(e.MIN_CHANGE, DefaultMinChange)),
     min_segment_duration |->
         Or(a.min_segment_duration,
            Getenv(e.MIN_SEGMENT_DURATION, DefaultMinSegmentDuration))]

\* No argument given, no variable set.
NoArguments == [threshold |-> None, min_change |-> None, min_segment_duration |-> None]
NoEnvironment == [VIDEO_THRESHOLD |-> None, MIN_CHANGE |-> None,
                  MIN_SEGMENT_DURATION |-> None]

NoFrames == [k \in {} |-> 0]

NoStage == [sampled |-> 0, raw |-> NoFrames, filtered |-> NoFrames,
            unblanked |-> NoFrames, limited |-> NoFrames]

\* The subtitle finder is not used by get_segment_frames_with_stats.
NoSubtitles ==
    /\ sub_pc = "unused"
    /\ parts = <<>>
    /\ video_segment_end_times = <<>>
    /\ part_positions = <<>>
    /\ start_pos = <<0, 0>>
    /\ segments = <<>>
    /\ idx = 0
    /\ used = <<>>

\* __find_part__ is not called on its own.
NoFindPart ==
    /\ find_pc = "unused"
    /\ find_time = 0
    /\ found = None

\* No task is queued and worker_loop is not running.
NoWorker ==
    /\ worker_pc = "unused"
    /\ tasks = <<>>
    /\ video_id = None
    /\ writes = <<>>
    /\ runs = <<>>

\* The state after VideoSegmentFinder.__init__.
InitVideo ==
    /\ pc = "start"
    /\ \E d \in MinSegmentDurations, c \in MinChanges :
         args = [threshold |-> None, min_change |-> c, min_segment_duration |-> d]
    /\ env = NoEnvironment
    /\ self = VideoSegmentFinder(args, env)
    /\ video = [opened |-> FALSE, fps |-> 0, total_frames |-> 0,
                frame_width |-> 0, frame_height |-> 0, frames |-> <<>>,
                levels |-> {}]
    /\ frame_skip = 1
    /\ frame_num = 0
    /\ prev_frame = Blank
    /\ prev_timestamp = 0
    /\ prev_video_changes = TrackerInit
    /\ selected_frames = NoFrames
    /\ max_segments = 0
    /\ stage = NoStage
    /\ NoFindPart
    /\ NoWorker
    /\ NoSubtitles

\* cv2.VideoCapture(video_file) and the properties read from it; a file that
\* cannot be opened reports 0 for every property.
OpenVideo ==
    /\ pc = "start"
    /\ \E opened \in BOOLEAN, f \in FpsValues, n \in 0..MaxFrames :
         /\ video' = IF opened
                     THEN [opened |-> TRUE, fps |-> f, total_frames |-> n,
                           frame_width |-> FrameWidth, frame_height |-> FrameHeight,
                           frames |-> <<>>, levels |-> GrayLevels]
                     ELSE video
         /\ frame_skip' = FrameSkip(video'.fps, video'.total_frames)
         /\ pc' = IF opened THEN "scan" ELSE "last"
    /\ frame_num' = 0
    /\ prev_frame' = Blank
    /\ prev_timestamp' = 0
    /\ prev_video_changes' = TrackerInit
    /\ selected_frames' = NoFrames
    /\ UNCHANGED <<args, env, self, max_segments, stage>>
    /\ UNCHANGED <<subtitleVars, findVars, workerVars>>

\* video_reader.read(): the next frame of the file, if any.
Decoded(v, cur) ==
    IF Len(v.frames) < v.total_frames
    THEN [v EXCEPT !.frames = Append(@, cur)]
    ELSE v

\* A frame that is not a multiple of frame_skip is read and skipped, also past
\* the end of the stream.
SkipFrame ==
    /\ pc = "scan"
    /\ frame_num % frame_skip /= 0
    /\ \E cur \in GrayLevels :
         /\ frame_num < video.total_frames => cur \in video.levels
         /\ frame_num < video.total_frames \/ cur = Blank
         /\ video' = Decoded(video, cur)
    /\ frame_num' = frame_num + 1
    /\ UNCHANGED <<pc, args, env, self, frame_skip, prev_frame, prev_timestamp,
                   prev_video_changes, selected_frames, max_segments, stage>>
    /\ UNCHANGED <<subtitleVars, findVars, workerVars>>

\* if not is_read: break
EndOfStream ==
    /\ pc = "scan"
    /\ frame_num % frame_skip = 0
    /\ frame_num >= video.total_frames
    /\ pc' = "last"
    /\ UNCHANGED <<args, env, self, video, frame_skip, frame_num, prev_frame, prev_timestamp,
                   prev_video_changes, selected_frames, max_segments, stage>>
    /\ UNCHANGED <<subtitleVars, findVars, workerVars>>

\* One sampled frame: compared with prev_frame, saved when a stable run is
\* broken, recorded in the tracker.
CompareFrame ==
    /\ pc = "scan"
    /\ frame_num % frame_skip = 0
    /\ frame_num < video.total_frames
    /\ \E cur_frame \in video.levels :
         LET results == compare_frames(self.threshold, video.frame_width,
                                       video.frame_height, prev_frame, cur_frame)
             has_changed == results.num_pixels_changed > self.min_change
             save_frame == are_previous_frames_stable(prev_video_changes) /\ has_changed
         IN  /\ video' = Decoded(video, cur_frame)
             /\ selected_frames' =
                    IF save_frame
                    THEN With(selected_frames, frame_num,
                              SavedFrame(prev_timestamp, prev_frame, cur_frame, results))
                    ELSE selected_frames
             /\ prev_video_changes' = add_frame_change(prev_video_changes, has_changed)
             /\ prev_frame' = cur_frame
    /\ prev_timestamp' = Timestamp(video.fps, frame_num)
    /\ frame_num' = frame_num + 1
    /\ stage' = [stage EXCEPT !.sampled = @ + 1]
    /\ UNCHANGED <<pc, args, env, self, frame_skip, max_segments>>
    /\ UNCHANGED <<subtitleVars, findVars, workerVars>>

\* Add the last frame of the video.
AddLastFrame ==
    /\ pc = "last"
    /\ selected_frames' = With(selected_frames, frame_num,
                               LastFrame(prev_timestamp, prev_frame))
    /\ stage' = [stage EXCEPT !.raw = selected_frames']
    /\ pc' = "filter"
    /\ UNCHANGED <<args, env, self, video, frame_skip, frame_num, prev_frame, prev_timestamp,
                   prev_video_changes, max_segments>>
    /\ UNCHANGED <<subtitleVars, findVars, workerVars>>

\* Enhanced segment filtering.
FilterSegments ==
    /\ pc = "filter"
    /\ selected_frames' = Without(selected_frames,
                                  FramesToRemove(selected_frames, self.min_segment_duration))
    /\ stage' = [stage EXCEPT !.filtered = selected_frames']
    /\ pc' = "blank"
    /\ UNCHANGED <<args, env, self, video, frame_skip, frame_num, prev_frame, prev_timestamp,
                   prev_video_changes, max_segments>>
    /\ UNCHANGED <<subtitleVars, findVars, workerVars>>

\* Edge case: delete the first selected frame.
RemoveBlankLead ==
    /\ pc = "blank"
    /\ selected_frames' = RemoveFirst(selected_frames)
    /\ stage' = [stage EXCEPT !.unblanked = selected_frames']
    /\ pc' = "limit"
    /\ UNCHANGED <<args, env, self, video, frame_skip, frame_num, prev_frame, prev_timestamp,
                   prev_video_changes, max_segments>>
    /\ UNCHANGED <<subtitleVars, findVars, workerVars>>

\* max_segments = int(os.getenv('MAX_SEGMENTS', 10)), then the reduction.
LimitMaximum ==
    /\ pc = "limit"
    /\ \E m \in MaxSegmentsValues :
         /\ max_segments' = m
         /\ selected_frames' = LimitSegments(selected_frames, m)
    /\ stage' = [stage EXCEPT !.limited = selected_frames']
    /\ pc' = "minimum"
    /\ UNCHANGED <<args, env, self, video, frame_skip, frame_num, prev_frame, prev_timestamp,
                   prev_video_changes>>
    /\ UNCHANGED <<subtitleVars, findVars, workerVars>>

\* Minimum segment guarantee, then return selected_frames.
GuaranteeMinimum ==
    /\ pc = "minimum"
    /\ selected_frames' = MinimumSegments(selected_frames, video)
    /\ pc' = "done"
    /\ UNCHANGED <<args, env, self, video, frame_skip, frame_num, prev_frame, prev_timestamp,
                   prev_video_changes, max_segments, stage>>
    /\ UNCHANGED <<subtitleVars, findVars, workerVars>>

NextVideo ==
    \/ OpenVideo
    \/ SkipFrame
    \/ EndOfStream
    \/ CompareFrame
    \/ AddLastFrame
    \/ FilterSegments
    \/ RemoveBlankLead
    \/ LimitMaximum
    \/ GuaranteeMinimum

SpecVideo ==
    /\ InitVideo
    /\ [][NextVideo]_vars

(***************************************************************************)
(* The construction of a finder from arguments and environment.            *)
(***************************************************************************)
\* The values of an argument: not given, 0, and two values above 0.
ArgumentValues == {None, 0, 1, 20}

\* The values of an environment variable: not set, and a value.
EnvironmentValues == {None, 7}

\* Before VideoSegmentFinder(...) is called.
InitConfig ==
    /\ pc = "new"
    /\ args = NoArguments
    /\ env = NoEnvironment
    /\ self = [threshold |-> 0, min_change |-> 0, min_segment_duration |-> 0]
    /\ video = [opened |-> FALSE, fps |-> 0, total_frames |-> 0,
                frame_width |-> 0, frame_height |-> 0, frames |-> <<>>,
                levels |-> {}]
    /\ frame_skip = 1
    /\ frame_num = 0
    /\ prev_frame = Blank
    /\ prev_timestamp = 0
    /\ prev_video_changes = TrackerInit
    /\ selected_frames = NoFrames
    /\ max_segments = 0
    /\ stage = NoStage
    /\ NoFindPart
    /\ NoWorker
    /\ NoSubtitles

\* VideoSegmentFinder(threshold, min_change, min_segment_duration) in an
\* environment.
Construct ==
    /\ pc = "new"
    /\ \E t, c, d \in ArgumentValues, vt, mc, msd \in EnvironmentValues :
         /\ args' = [threshold |-> t, min_change |-> c, min_segment_duration |-> d]
         /\ env' = [VIDEO_THRESHOLD |-> vt, MIN_CHANGE |-> mc,
                    MIN_SEGMENT_DURATION |-> msd]
    /\ self' = VideoSegmentFinder(args', env')
    /\ pc' = "start"
    /\ UNCHANGED <<video, frame_skip, frame_num, prev_frame, prev_timestamp,
                   prev_video_changes, selected_frames, max_segments, stage>>
    /\ UNCHANGED <<subtitleVars, findVars, workerVars>>

NextConfig == Construct

SpecConfig ==
    /\ InitConfig
    /\ [][NextConfig]_vars

(***************************************************************************)
(* Videos on both sides of the 60 s and the 1800 s marks.  Their frames    *)
(* all have the same gray level, so that the scan of a video of thousands  *)
(* of frames is one behaviour.                                             *)
(***************************************************************************)
\* The frame rates of the long videos: fps // 4 is 0 for one and 1 for the other.
SamplingFpsValues == {2, 4}

\* The frame counts at the marks: one frame short of 60 s, 60 s, 1800 s and
\* one frame more than 1800 s.
SamplingFrameCounts(fps) ==
    { ShortVideoSeconds * fps - 1, ShortVideoSeconds * fps,
      LongVideoSeconds * fps, LongVideoSeconds * fps + 1 }

\* cv2.VideoCapture(video_file) of a still video of one of these lengths.
OpenStillVideo ==
    /\ pc = "start"
    /\ \E f \in SamplingFpsValues, level \in GrayLevels :
         \E n \in SamplingFrameCounts(f) :
            /\ video' = [opened |-> TRUE, fps |-> f, total_frames |-> n,
                         frame_width |-> FrameWidth, frame_height |-> FrameHeight,
                         frames |-> <<>>, levels |-> {level}]
            /\ frame_skip' = FrameSkip(f, n)
    /\ pc' = "scan"
    /\ frame_num' = 0
    /\ prev_frame' = Blank
    /\ prev_timestamp' = 0
    /\ prev_video_changes' = TrackerInit
    /\ selected_frames' = NoFrames
    /\ UNCHANGED <<args, env, self, max_segments, stage>>
    /\ UNCHANGED <<subtitleVars, findVars, workerVars>>

NextSampling ==
    \/ OpenStillVideo
    \/ SkipFrame
    \/ EndOfStream
    \/ CompareFrame
    \/ AddLastFrame
    \/ FilterSegments
    \/ RemoveBlankLead
    \/ LimitMaximum
    \/ GuaranteeMinimum

SpecSampling ==
    /\ InitVideo
    /\ [][NextSampling]_vars

(***************************************************************************)
(* Claims about VideoSegmentFinder, checked under SpecVideo.               *)
(***************************************************************************)
\* get_segment_frames_with_stats has returned selected_frames.
Returned == pc = "done"

\* The number of boundaries in a map.
Count(selected) == Cardinality(DOMAIN selected)

\* The returned map is the pair made by the minimum segment guarantee.
Synthesized == Returned /\ Count(stage.limited) < 2 /\ selected_frames /= stage.limited

\* Adjacent boundaries of a map, ordered by frame number, are at least d ms
\* apart and strictly increasing in timestamp.
Spaced(selected, d) ==
    LET nums == Sorted(DOMAIN selected)
    IN  \A i \in 1..(Len(nums) - 1) :
            /\ selected[nums[i + 1]].timestamp - selected[nums[i]].timestamp >= d
            /\ selected[nums[i + 1]].timestamp > selected[nums[i]].timestamp

\* C1: for a video with at least 2 sampled frames and MAX_SEGMENTS >= 2 the
\* returned map holds at least 2 and at most max_segments boundaries.
C1_BoundaryCount ==
    (Returned /\ stage.sampled >= 2 /\ max_segments >= 2)
        => (Count(selected_frames) >= 2 /\ Count(selected_frames) <= max_segments)

\* C2: in the returned map, ordered by frame number, timestamps increase
\* strictly and adjacent boundaries are at least min_segment_duration apart;
\* the pair made by the minimum segment guarantee is only strictly increasing.
C2_MinimumSpacing ==
    Returned =>
        IF Synthesized
        THEN Spaced(selected_frames, 1)
        ELSE Spaced(selected_frames, self.min_segment_duration)

\* C2 witness: a returned map of detected boundaries, at least two of them,
\* from which the segment filtering removed a boundary.
C2_Witness ==
    /\ Returned
    /\ ~Synthesized
    /\ Count(selected_frames) >= 2
    /\ stage.filtered /= stage.raw

\* C7: when more than max_segments boundaries remain before the reduction,
\* the reduced map holds exactly max_segments boundaries, the last of them
\* the last boundary before the reduction.
C7_ReducedToMaximum ==
    (pc \in {"minimum", "done"} /\ Count(stage.unblanked) > max_segments)
        => /\ Count(stage.limited) = max_segments
           /\ MaxOfSet(DOMAIN stage.limited) = MaxOfSet(DOMAIN stage.unblanked)

\* The pair the minimum segment guarantee makes from a video.
MinimumPair(v) ==
    LET mid == v.total_frames \div 2
    IN  /\ DOMAIN selected_frames = {0, mid}
        /\ Count(selected_frames) = 2
        /\ selected_frames[0] = [timestamp |-> 0, frame |-> v.frames[1]]
        /\ selected_frames[mid] =
               [timestamp |-> Timestamp(v.fps, mid), frame |-> v.frames[mid + 1]]

C10_NoMapWhenUnreadable ==
    ~(Returned /\ (~video.opened \/ video.total_frames = 0))

(***************************************************************************)
(* Strings are sequences of characters; positions are counted from 0 as in *)
(* the source.                                                             *)
(***************************************************************************)
Min2(a, b) == IF a <= b THEN a ELSE b

\* len(text.strip()) < 10 is returned as it is by _ensure_complete_words.
MinCheckedLength == 10
\* A last word of fewer than 3 characters looks incomplete.
MinWordLength == 3
\* '.!?;,'
Punctuation == {".", "!", "?", ";", ","}
\* The characters str.strip() and str.split() treat as whitespace.
Whitespace == {" "}

\* text[a:b] for a >= 0 and b >= 0
Slice(text, a, b) ==
    IF a >= Min2(b, Len(text)) THEN <<>> ELSE SubSeq(text, a + 1, Min2(b, Len(text)))

\* text[a:] for a >= 0
SliceFrom(text, a) == Slice(text, a, Len(text))

RECURSIVE LStrip(_)
LStrip(text) ==
    IF text = <<>> THEN text
    ELSE IF Head(text) \in Whitespace THEN LStrip(Tail(text)) ELSE text

RECURSIVE RStrip(_)
RStrip(text) ==
    IF text = <<>> THEN text
    ELSE IF text[Len(text)] \in Whitespace
         THEN RStrip(SubSeq(text, 1, Len(text) - 1)) ELSE text

\* text.strip()
Strip(text) == RStrip(LStrip(text))

\* text.split(): the maximal runs of characters that are not whitespace.
RECURSIVE SplitFrom(_, _, _)
SplitFrom(text, word, words) ==
    IF text = <<>> THEN (IF word = <<>> THEN words ELSE Append(words, word))
    ELSE IF Head(text) \in Whitespace
         THEN SplitFrom(Tail(text), <<>>,
                        IF word = <<>> THEN words ELSE Append(words, word))
         ELSE SplitFrom(Tail(text), Append(word, Head(text)), words)

Split(text) == SplitFrom(text, <<>>, <<>>)

\* ' '.join(texts)
RECURSIVE Join(_)
Join(texts) ==
    IF texts = <<>> THEN <<>>
    ELSE IF Len(texts) = 1 THEN texts[1]
    ELSE texts[1] \o <<" ">> \o Join(Tail(texts))

\* any(punct in word for punct in '.!?;,')
HasPunctuation(word) == \E i \in DOMAIN word : word[i] \in Punctuation

\* A sequence index i is valid for a sequence of length n, negative ones
\* counting from the end.
IndexOk(n, i) == -n <= i /\ i < n

\* seq[i] for a valid index i.
At(seq, i) == IF i < 0 THEN seq[Len(seq) + i + 1] ELSE seq[i + 1]

(***************************************************************************)
(* SubtitleSegmentFinder                                                   *)
(***************************************************************************)
\* float('inf'), the next time break of the last break.
Infinity == 1000000

\* A check that takes only one-character words for incomplete.
ensure_complete_words_Short(text) ==
    IF text = <<>> \/ Len(Strip(text)) < MinCheckedLength THEN text
    ELSE LET words == Split(Strip(text))
         IN  IF Len(words) <= 1 THEN text
             ELSE LET last_word == words[Len(words)]
                  IN  IF Len(last_word) < MinWordLength - 1 /\ ~HasPunctuation(last_word)
                      THEN Join(SubSeq(words, 1, Len(words) - 1))
                      ELSE text

\* _ensure_complete_words
ensure_complete_words(text) ==
    IF text = <<>> \/ Len(Strip(text)) < MinCheckedLength THEN text
    ELSE LET words == Split(Strip(text))
         IN  IF Len(words) <= 1 THEN text
             ELSE LET last_word == words[Len(words)]
                  IN  IF Len(last_word) < MinWordLength /\ ~HasPunctuation(last_word)
                      THEN Join(SubSeq(words, 1, Len(words) - 1))
                      ELSE text

\* A binary search that takes the end time of a part for a time of the part.
RECURSIVE FindPartBetween_Inclusive(_, _, _, _)
FindPartBetween_Inclusive(ps, timestamp_ms, left, right) ==
    IF left > right THEN None
    ELSE LET mid == (left + right) \div 2
             cur_part == ps[mid + 1]
         IN  IF cur_part.start_time <= timestamp_ms /\ timestamp_ms <= cur_part.end_time
             THEN mid
             ELSE IF timestamp_ms < cur_part.start_time
                  THEN FindPartBetween_Inclusive(ps, timestamp_ms, left, mid - 1)
                  ELSE FindPartBetween_Inclusive(ps, timestamp_ms, mid + 1, right)

\* __find_part__: binary search for the part with start_time <= t < end_time.
RECURSIVE FindPartBetween(_, _, _, _)
FindPartBetween(ps, timestamp_ms, left, right) ==
    IF left > right THEN None
    ELSE LET mid == (left + right) \div 2
             cur_part == ps[mid + 1]
         IN  IF cur_part.start_time <= timestamp_ms /\ timestamp_ms < cur_part.end_time
             THEN mid
             ELSE IF timestamp_ms < cur_part.start_time
                  THEN FindPartBetween(ps, timestamp_ms, left, mid - 1)
                  ELSE FindPartBetween(ps, timestamp_ms, mid + 1, right)

find_part(ps, timestamp_ms) == FindPartBetween(ps, timestamp_ms, 0, Len(ps) - 1)

\* What __get_part_position_of_time_break__ ends with: a position or an IndexError.
Position(part, char) == [raised |-> FALSE, pos |-> <<part, char>>]
IndexError == [raised |-> TRUE, pos |-> <<0, 0>>]

\* The third loop: to the right only.
RECURSIVE ScanRight(_, _, _, _, _)
ScanRight(ps, max_part_idx, fallback, right_part_index, right_part_char_index) ==
    IF ~(right_part_index < max_part_idx) THEN fallback
    ELSE IF ~IndexOk(Len(ps), right_part_index) THEN IndexError
    ELSE LET text == At(ps, right_part_index).text
         IN  IF ~IndexOk(Len(text), right_part_char_index) THEN IndexError
             ELSE IF At(text, right_part_char_index) = "."
             THEN Position(right_part_index, right_part_char_index)
             ELSE IF right_part_char_index + 1 >= Len(text)
                  THEN ScanRight(ps, max_part_idx, fallback, right_part_index + 1, 0)
                  ELSE ScanRight(ps, max_part_idx, fallback, right_part_index,
                                 right_part_char_index + 1)

\* The second loop: to the left only, then the third loop.
RECURSIVE ScanLeft(_, _, _, _, _, _, _, _)
ScanLeft(ps, min_part_idx, max_part_idx, fallback, left_part_index, left_part_char_index, right_part_index, right_part_char_index) ==
    IF ~(left_part_index >= min_part_idx)
    THEN ScanRight(ps, max_part_idx, fallback, right_part_index, right_part_char_index)
    ELSE IF ~IndexOk(Len(ps), left_part_index) THEN IndexError
    ELSE LET text == At(ps, left_part_index).text
         IN  IF ~IndexOk(Len(text), left_part_char_index) THEN IndexError
             ELSE IF At(text, left_part_char_index) = "."
             THEN Position(left_part_index, left_part_char_index)
             ELSE IF left_part_char_index - 1 < 0
                  THEN IF ~IndexOk(Len(ps), left_part_index - 1) THEN IndexError
                       ELSE ScanLeft(ps, min_part_idx, max_part_idx, fallback,
                                     left_part_index - 1,
                                     Len(At(ps, left_part_index - 1).text) - 1,
                                     right_part_index, right_part_char_index)
                  ELSE ScanLeft(ps, min_part_idx, max_part_idx, fallback,
                                left_part_index, left_part_char_index - 1,
                                right_part_index, right_part_char_index)

\* A first loop that looks to the right before it looks to the left.
RECURSIVE ScanBoth_RightFirst(_, _, _, _, _, _, _, _)
ScanBoth_RightFirst(ps, min_part_idx, max_part_idx, fallback, left_part_index, left_part_char_index, right_part_index, right_part_char_index) ==
    IF ~(left_part_index >= min_part_idx /\ right_part_index < max_part_idx)
    THEN ScanLeft(ps, min_part_idx, max_part_idx, fallback,
                  left_part_index, left_part_char_index,
                  right_part_index, right_part_char_index)
    ELSE IF ~IndexOk(Len(ps), left_part_index) \/ ~IndexOk(Len(ps), right_part_index)
    THEN IndexError
    ELSE LET left_text == At(ps, left_part_index).text
             right_text == At(ps, right_part_index).text
         IN  IF ~IndexOk(Len(right_text), right_part_char_index) THEN IndexError
             ELSE IF At(right_text, right_part_char_index) = "."
             THEN Position(right_part_index, right_part_char_index)
             ELSE IF ~IndexOk(Len(left_text), left_part_char_index) THEN IndexError
             ELSE IF At(left_text, left_part_char_index) = "."
             THEN Position(left_part_index, left_part_char_index)
             ELSE LET left_wraps == left_part_char_index - 1 < 0
                      right_wraps == right_part_char_index + 1 >= Len(right_text)
                  IN  IF left_wraps /\ ~IndexOk(Len(ps), left_part_index - 1)
                      THEN IndexError
                      ELSE ScanBoth_RightFirst(ps, min_part_idx, max_part_idx, fallback,
                               IF left_wraps THEN left_part_index - 1 ELSE left_part_index,
                               IF left_wraps
                               THEN Len(At(ps, left_part_index - 1).text) - 1
                               ELSE left_part_char_index - 1,
                               IF right_wraps THEN right_part_index + 1 ELSE right_part_index,
                               IF right_wraps THEN 0 ELSE right_part_char_index + 1)

\* The first loop: one character to the left and one to the right in turn,
\* then the second and the third loop.
RECURSIVE ScanBoth(_, _, _, _, _, _, _, _)
ScanBoth(ps, min_part_idx, max_part_idx, fallback, left_part_index, left_part_char_index, right_part_index, right_part_char_index) ==
    IF ~(left_part_index >= min_part_idx /\ right_part_index < max_part_idx)
    THEN ScanLeft(ps, min_part_idx, max_part_idx, fallback,
                  left_part_index, left_part_char_index,
                  right_part_index, right_part_char_index)
    ELSE IF ~IndexOk(Len(ps), left_part_index) \/ ~IndexOk(Len(ps), right_part_index)
    THEN IndexError
    ELSE LET left_text == At(ps, left_part_index).text
             right_text == At(ps, right_part_index).text
         IN  IF ~IndexOk(Len(left_text), left_part_char_index) THEN IndexError
             ELSE IF At(left_text, left_part_char_index) = "."
             THEN Position(left_part_index, left_part_char_index)
             ELSE IF ~IndexOk(Len(right_text), right_part_char_index) THEN IndexError
             ELSE IF At(right_text, right_part_char_index) = "."
             THEN Position(right_part_index, right_part_char_index)
             ELSE LET left_wraps == left_part_char_index - 1 < 0
                      right_wraps == right_part_char_index + 1 >= Len(right_text)
                  IN  IF left_wraps /\ ~IndexOk(Len(ps), left_part_index - 1)
                      THEN IndexError
                      ELSE ScanBoth(ps, min_part_idx, max_part_idx, fallback,
                               IF left_wraps THEN left_part_index - 1 ELSE left_part_index,
                               IF left_wraps
                               THEN Len(At(ps, left_part_index - 1).text) - 1
                               ELSE left_part_char_index - 1,
                               IF right_wraps THEN right_part_index + 1 ELSE right_part_index,
                               IF right_wraps THEN 0 ELSE right_part_char_index + 1)

\* A ratio measured from the end of the part.
CharIndexOfTime_FromEnd(part, time_break) ==
    ((part.end_time - time_break) * Len(part.text))
        \div (part.end_time - part.start_time)

\* int(ratio * len(part.text)), ratio = (time_break - start) / (end - start)
CharIndexOfTime(part, time_break) ==
    ((time_break - part.start_time) * Len(part.text))
        \div (part.end_time - part.start_time)

\* __get_part_position_of_time_break__
get_part_position_of_time_break(ps, time_break, min_time_break, max_time_break) ==
    LET found_min == find_part(ps, min_time_break)
        found_max == find_part(ps, max_time_break)
        part_index == find_part(ps, time_break)
        min_part_idx == IF found_min = None THEN 0 ELSE found_min
        max_part_idx == IF found_max = None THEN Len(ps) ELSE found_max
    IN  IF ps = <<>> THEN IndexError
        ELSE IF time_break >= ps[Len(ps)].end_time
        THEN Position(Len(ps) - 1, Len(ps[Len(ps)].text) - 1)
        ELSE IF part_index = None THEN Position(0, -1)
        ELSE LET part_char_index == CharIndexOfTime(ps[part_index + 1], time_break)
             IN  ScanBoth(ps, min_part_idx, max_part_idx,
                          Position(part_index, part_char_index),
                          part_index, part_char_index, part_index, part_char_index)

\* The text cut out with the last character of the end position left out.
RawSegment_Exclusive(ps, start, end) ==
    IF start[1] > end[1] THEN <<>>
    ELSE IF start[1] = end[1] /\ start[2] > end[2] THEN <<>>
    ELSE IF start[1] = end[1]
    THEN Slice(ps[start[1] + 1].text, start[2], end[2])
    ELSE Join(<<Strip(SliceFrom(ps[start[1] + 1].text, start[2]))>>
              \o [k \in 1..(end[1] - start[1] - 1) |-> ps[start[1] + 1 + k].text]
              \o <<Strip(Slice(ps[end[1] + 1].text, 0, end[2]))>>)

\* The text cut out for a segment from start_pos to end_pos, before the
\* check for an incomplete last word.
RawSegment(ps, start, end) ==
    IF start[1] > end[1] THEN <<>>
    ELSE IF start[1] = end[1] /\ start[2] > end[2] THEN <<>>
    ELSE IF start[1] = end[1]
    THEN Slice(ps[start[1] + 1].text, start[2], end[2] + 1)
    ELSE Join(<<Strip(SliceFrom(ps[start[1] + 1].text, start[2]))>>
              \o [k \in 1..(end[1] - start[1] - 1) |-> ps[start[1] + 1 + k].text]
              \o <<Strip(Slice(ps[end[1] + 1].text, 0, end[2] + 1))>>)

\* The segment from start_pos to end_pos.
Segment(ps, start, end) ==
    IF start[1] > end[1] \/ (start[1] = end[1] /\ start[2] > end[2])
    THEN <<>>
    ELSE Strip(ensure_complete_words(RawSegment(ps, start, end)))

\* A start at the end position itself.
NextStart_Same(end) == <<end[1], end[2]>>

\* start_pos = (end_pos[0], end_pos[1] + 1)
NextStart(end) == <<end[1], end[2] + 1>>

\* An append that skips empty segments.
AppendSegment_NonEmpty(segs, segment) ==
    IF segment = <<>> THEN segs ELSE Append(segs, segment)

\* segments.append(segment)
AppendSegment(segs, segment) == Append(segs, segment)

(***************************************************************************)
(* The subtitle parts of the model: texts of an external parser, each with *)
(* its duration, laid end to end from time 0.                              *)
(***************************************************************************)
PartTemplates ==
    { [duration |-> 4, text |-> <<"a", "a", ".", "a", "a", "a", ".", "a">>],
      [duration |-> 2, text |-> <<"a", "a", "a", "a", " ", "a", "a", "a", "a", " ",
                                  "a", "a", " ", "a">>],
      [duration |-> 2, text |-> <<>>],
      [duration |-> 2, text |-> <<"a", "a", " ", "a">>],
      [duration |-> 4, text |-> <<"a", "a", "a", ".", " ", "a", "a", "a", "a", "a",
                                  "a", "a", " ", "a", "a">>] }

\* SubtitlePart(start_time, end_time, text) for each template in turn.
RECURSIVE PartsFrom(_, _)
PartsFrom(templates, start_time) ==
    IF templates = <<>> THEN <<>>
    ELSE <<[start_time |-> start_time,
            end_time |-> start_time + Head(templates).duration,
            text |-> Head(templates).text]>>
         \o PartsFrom(Tail(templates), start_time + Head(templates).duration)

\* The texts of the lists of three parts: one with periods, one without.
SpanTemplates ==
    { t \in PartTemplates : t.text \in { <<"a", "a", ".", "a", "a", "a", ".", "a">>,
                                         <<"a", "a", " ", "a">> } }

\* The lists of up to MaxParts parts, and lists of three parts, in which a
\* segment can run over a whole part.
PartLists ==
    { PartsFrom(t, 0) : t \in UNION { [1..n -> PartTemplates] : n \in 0..MaxParts } }
        \cup { PartsFrom(t, 0) : t \in [1..3 -> SpanTemplates] }

\* The end time of the last part, 0 without parts.
EndTime(ps) == IF ps = <<>> THEN 0 ELSE ps[Len(ps)].end_time

Ascending(times) == \A k \in 1..(Len(times) - 1) : times[k] <= times[k + 1]

\* The lists of end times up to one past the end of the subtitles: the
\* ascending lists a video gives, and the pairs in any order, since
\* get_subtitle_segments takes the list as the caller gives it.
BreakLists(ps) ==
    { b \in UNION { [1..n -> 0..(EndTime(ps) + 1)] : n \in 0..MaxBreaks } :
        Ascending(b) \/ Len(b) <= 2 }

\* The video finder is not used by get_subtitle_segments.
NoVideo ==
    /\ pc = "unused"
    /\ args = NoArguments
    /\ env = NoEnvironment
    /\ self = [threshold |-> DefaultThreshold, min_change |-> 0,
               min_segment_duration |-> DefaultMinSegmentDuration]
    /\ video = [opened |-> FALSE, fps |-> 0, total_frames |-> 0,
                frame_width |-> 0, frame_height |-> 0, frames |-> <<>>,
                levels |-> {}]
    /\ frame_skip = 1
    /\ frame_num = 0
    /\ prev_frame = Blank
    /\ prev_timestamp = 0
    /\ prev_video_changes = TrackerInit
    /\ selected_frames = NoFrames
    /\ max_segments = 0
    /\ stage = NoStage

\* The state after SubtitleSegmentFinder.__init__(parts).
InitSubtitle ==
    /\ sub_pc = "idle"
    /\ parts \in PartLists
    /\ video_segment_end_times = <<>>
    /\ part_positions = <<>>
    /\ start_pos = <<0, 0>>
    /\ segments = <<>>
    /\ idx = 0
    /\ used = <<>>
    /\ NoFindPart
    /\ NoWorker
    /\ NoVideo

\* get_subtitle_segments(video_segment_end_times) is called.
CallSegments ==
    /\ sub_pc = "idle"
    /\ \E breaks \in BreakLists(parts) :
         /\ video_segment_end_times' = breaks
         /\ sub_pc' = IF breaks = <<>> THEN "done" ELSE "resolve"
    /\ part_positions' = <<>>
    /\ start_pos' = <<0, 0>>
    /\ segments' = <<>>
    /\ idx' = 0
    /\ used' = <<>>
    /\ UNCHANGED parts
    /\ UNCHANGED <<videoVars, findVars, workerVars>>

\* One round of the first loop: the position of time break idx.
ResolveBreak ==
    /\ sub_pc = "resolve"
    /\ LET n == Len(video_segment_end_times)
           time_break == video_segment_end_times[idx + 1]
           prev_time_break == IF idx > 0 THEN video_segment_end_times[idx] ELSE 0
           next_time_break == IF idx < n - 1 THEN video_segment_end_times[idx + 2]
                              ELSE Infinity
           resolved == get_part_position_of_time_break(parts, time_break,
                                                    prev_time_break, next_time_break)
       IN  IF resolved.raised
           THEN /\ sub_pc' = "raised"
                /\ UNCHANGED <<part_positions, idx>>
           ELSE /\ part_positions' = Append(part_positions, resolved.pos)
                /\ sub_pc' = IF idx + 1 = n THEN "build" ELSE "resolve"
                /\ idx' = IF idx + 1 = n THEN 0 ELSE idx + 1
    /\ UNCHANGED <<parts, video_segment_end_times, start_pos, segments, used>>
    /\ UNCHANGED <<videoVars, findVars, workerVars>>

\* One round of the second loop: the segment that ends at position idx; the
\* segments are returned after the last round.
BuildSegment ==
    /\ sub_pc = "build"
    /\ LET end_pos == part_positions[idx + 1]
       IN  /\ segments' = AppendSegment(segments, Segment(parts, start_pos, end_pos))
           /\ used' = Append(used, [start |-> start_pos, end |-> end_pos,
                                    raw |-> RawSegment(parts, start_pos, end_pos)])
           /\ start_pos' = NextStart(end_pos)
    /\ idx' = idx + 1
    /\ sub_pc' = IF idx + 1 = Len(part_positions) THEN "done" ELSE "build"
    /\ UNCHANGED <<parts, video_segment_end_times, part_positions>>
    /\ UNCHANGED <<videoVars, findVars, workerVars>>

NextSubtitle ==
    \/ CallSegments
    \/ ResolveBreak
    \/ BuildSegment

SpecSubtitle ==
    /\ InitSubtitle
    /\ [][NextSubtitle]_vars

(***************************************************************************)
(* __find_part__ on its own: parts sorted by start time that do not        *)
(* overlap, with and without gaps between them.                            *)
(***************************************************************************)
\* What a part of such a list is made from: the gap before it and its duration.
PartShapes == [gap : {0, 2}, duration : {1, 2}]

\* SubtitlePart(start_time, end_time, text) for each shape in turn.
RECURSIVE PartsApart(_, _)
PartsApart(shapes, time) ==
    IF shapes = <<>> THEN <<>>
    ELSE <<[start_time |-> time + Head(shapes).gap,
            end_time |-> time + Head(shapes).gap + Head(shapes).duration,
            text |-> <<>>]>>
         \o PartsApart(Tail(shapes), time + Head(shapes).gap + Head(shapes).duration)

\* The sorted lists of up to MaxParts + 2 parts that do not overlap.
SortedPartLists ==
    { PartsApart(t, 0) : t \in UNION { [1..n -> PartShapes] : n \in 0..(MaxParts + 2) } }

\* The times __find_part__ is called with: a time break, or float('inf')
\* for the break after the last.
Timestamps(ps) == 0..(EndTime(ps) + 1) \cup {Infinity}

\* The state after SubtitleSegmentFinder.__init__(parts), before a call of
\* __find_part__.
InitFindPart ==
    /\ find_pc = "idle"
    /\ find_time = 0
    /\ found = None
    /\ sub_pc = "unused"
    /\ parts \in SortedPartLists
    /\ video_segment_end_times = <<>>
    /\ part_positions = <<>>
    /\ start_pos = <<0, 0>>
    /\ segments = <<>>
    /\ idx = 0
    /\ used = <<>>
    /\ NoWorker
    /\ NoVideo

\* self.__find_part__(timestamp_ms) is called and returns.
FindPart ==
    /\ find_pc \in {"idle", "returned"}
    /\ \E t \in Timestamps(parts) :
         /\ find_time' = t
         /\ found' = find_part(parts, t)
    /\ find_pc' = "returned"
    /\ UNCHANGED <<videoVars, subtitleVars, workerVars>>

NextFindPart == FindPart

SpecFindPart ==
    /\ InitFindPart
    /\ [][NextFindPart]_vars

(***************************************************************************)
(* worker_loop: the tasks of the Firestore collection and the status       *)
(* written for the task in hand.                                           *)
(***************************************************************************)
TaskIds == 1..MaxTasks

\* The tasks of the collection, all queued: create_video_task(..., status="in_queue").
QueuedTasks == [v \in TaskIds |-> "in_queue"]

\* update_video_task_status(video_id, status): the document is updated, or
\* the update raises, which is caught and answered with False.
update_video_task_status(collection, v, status, accepted) ==
    IF accepted THEN [collection EXCEPT ![v] = status] ELSE collection

\* The record of one call of update_video_task_status.
Written(history, v, status, accepted) ==
    [history EXCEPT ![v] = Append(@, [status |-> status, stored |-> accepted])]

\* The state when worker_loop starts.
InitWorker ==
    /\ worker_pc = "poll"
    /\ tasks = QueuedTasks
    /\ video_id = None
    /\ writes = [v \in TaskIds |-> <<>>]
    /\ runs = [v \in TaskIds |-> <<>>]
    /\ NoFindPart
    /\ NoSubtitles
    /\ NoVideo

\* task = firestore_db.get_next_queued_task(): a task with status in_queue,
\* or None, after which the loop sleeps and asks again.
GetNextQueuedTask ==
    /\ worker_pc = "poll"
    /\ \/ \E v \in TaskIds :
            /\ tasks[v] = "in_queue"
            /\ Len(runs[v]) < MaxRuns
            /\ video_id' = v
            /\ worker_pc' = "mark_in_progress"
       \/ /\ \A v \in TaskIds : tasks[v] /= "in_queue" \/ Len(runs[v]) >= MaxRuns
          /\ UNCHANGED <<worker_pc, video_id>>
    /\ UNCHANGED <<tasks, writes, runs>>
    /\ UNCHANGED <<videoVars, subtitleVars, findVars>>

\* firestore_db.update_video_task_status(video_id, "in_progress")
MarkInProgress ==
    /\ worker_pc = "mark_in_progress"
    /\ \E accepted \in BOOLEAN :
         /\ tasks' = update_video_task_status(tasks, video_id, "in_progress", accepted)
         /\ writes' = Written(writes, video_id, "in_progress", accepted)
    /\ worker_pc' = "process_video"
    /\ UNCHANGED <<video_id, runs>>
    /\ UNCHANGED <<videoVars, subtitleVars, findVars>>

\* process_video(video_id) returns or raises.
ProcessVideo ==
    /\ worker_pc = "process_video"
    /\ \E outcome \in {"returned", "raised"} :
         /\ runs' = [runs EXCEPT ![video_id] = Append(@, outcome)]
         /\ worker_pc' = IF outcome = "returned" THEN "mark_done" ELSE "mark_failed"
    /\ UNCHANGED <<tasks, video_id, writes>>
    /\ UNCHANGED <<videoVars, subtitleVars, findVars>>

\* firestore_db.update_video_task_status(video_id, "done"), then the pause
\* before the next task.
MarkDone ==
    /\ worker_pc = "mark_done"
    /\ \E accepted \in BOOLEAN :
         /\ tasks' = update_video_task_status(tasks, video_id, "done", accepted)
         /\ writes' = Written(writes, video_id, "done", accepted)
    /\ worker_pc' = "poll"
    /\ UNCHANGED <<video_id, runs>>
    /\ UNCHANGED <<videoVars, subtitleVars, findVars>>

\* firestore_db.update_video_task_status(video_id, "failed") in the except
\* branch, then the pause before the next task.
MarkFailed ==
    /\ worker_pc = "mark_failed"
    /\ \E accepted \in BOOLEAN :
         /\ tasks' = update_video_task_status(tasks, video_id, "failed", accepted)
         /\ writes' = Written(writes, video_id, "failed", accepted)
    /\ worker_pc' = "poll"
    /\ UNCHANGED <<video_id, runs>>
    /\ UNCHANGED <<videoVars, subtitleVars, findVars>>

NextWorker ==
    \/ GetNextQueuedTask
    \/ MarkInProgress
    \/ ProcessVideo
    \/ MarkDone
    \/ MarkFailed

SpecWorker ==
    /\ InitWorker
    /\ [][NextWorker]_vars

(***************************************************************************)
(* Claims about SubtitleSegmentFinder, checked under SpecSubtitle.         *)
(***************************************************************************)
\* get_subtitle_segments has returned segments.
SegmentsReturned == sub_pc = "done"

\* Positions (part index, char index) in lexicographic order.
Before(a, b) == a[1] < b[1] \/ (a[1] = b[1] /\ a[2] < b[2])
NotAfter(a, b) == a = b \/ Before(a, b)

\* The position resolved for the k-th time break of a list.
PositionOfBreak(ps, times, k) ==
    get_part_position_of_time_break(ps, times[k],
        IF k > 1 THEN times[k - 1] ELSE 0,
        IF k < Len(times) THEN times[k + 1] ELSE Infinity).pos

Covered(ps, start, end) ==
    { pos \in UNION { { <<p - 1, c - 1>> : c \in 1..Len(ps[p].text) } : p \in DOMAIN ps } :
        NotAfter(start, pos) /\ NotAfter(pos, end) }

\* C4: for ascending time breaks the positions resolved for successive breaks
\* never decrease, and no character of the transcript lies in two segments.
C4_PositionsAscend ==
    Ascending(video_segment_end_times) =>
        /\ \A a, b \in DOMAIN part_positions :
               a < b => NotAfter(part_positions[a], part_positions[b])
        /\ \A a, b \in DOMAIN used :
               a < b => Covered(parts, used[a].start, used[a].end)
                            \cap Covered(parts, used[b].start, used[b].end) = {}

\* C4 witness: two non-empty segments that end at different positions.
C4_Witness ==
    /\ SegmentsReturned
    /\ Len(used) >= 2
    /\ Before(used[1].end, used[2].end)
    /\ Covered(parts, used[1].start, used[1].end) /= {}
    /\ Covered(parts, used[2].start, used[2].end) /= {}

\* A text of more than one word ends with a word of fewer than 3 characters
\* without punctuation.
EndsIncomplete(text) ==
    LET words == Split(text)
    IN  /\ Len(words) > 1
        /\ Len(words[Len(words)]) < MinWordLength
        /\ ~HasPunctuation(words[Len(words)])

C6_StartFollowsEnd ==
    /\ start_pos = IF used = <<>> THEN <<0, 0>>
                   ELSE <<used[Len(used)].end[1], used[Len(used)].end[2] + 1>>
    /\ Ascending(video_segment_end_times) =>
         \A k \in DOMAIN used :
            /\ k = 1 => used[k].start = <<0, 0>>
            /\ k > 1 => /\ used[k].start = <<used[k - 1].end[1], used[k - 1].end[2] + 1>>
                        /\ NotAfter(used[k - 1].end, used[k].start)
            /\ \A j \in 1..(k - 1) : Before(used[j].end, used[k].start)

\* C6 witness: a second segment that starts inside a part, after the first.
C6_Witness ==
    /\ SegmentsReturned
    /\ Len(used) >= 2
    /\ used[2].start[2] > 0
    /\ segments[2] /= <<>>

\* get_subtitle_segments has ended, with a list of segments or with an error.
SegmentsEnded == sub_pc \in {"done", "raised"}

\* C11: with an empty parts list get_subtitle_segments raises no error and
\* returns the empty string for every time break.
C11_EmptyPartsEmptySegments ==
    (parts = <<>> /\ SegmentsEnded) =>
        /\ sub_pc = "done"
        /\ Len(segments) = Len(video_segment_end_times)
        /\ \A k \in DOMAIN segments : segments[k] = <<>>

\* C12: given a list in which some time break is smaller than the one before
\* it, get_subtitle_segments returns no segments.
C12_RejectsUnorderedBreaks ==
    ~Ascending(video_segment_end_times) => ~SegmentsReturned

(***************************************************************************)
(* Claims about the sampling, checked under SpecSampling.                  *)
(***************************************************************************)
\* The stride the claim gives for a video of total_frames frames at fps
\* frames per second: duration below 60 s, above 1800 s, or between them.
StrideOfDuration(fps, total_frames) ==
    IF total_frames < 60 * fps THEN Max2(1, fps \div 4)
    ELSE IF total_frames > 1800 * fps THEN Max2(1, fps)
    ELSE Max2(1, fps \div 2)

\* The number of multiples of stride among the frame numbers 0..n-1.
MultiplesBelow(n, stride) == (n + stride - 1) \div stride

\* C13: the sampling stride of an opened video is the one its duration
\* gives, and of the frames read so far exactly those whose number is a
\* multiple of the stride were compared.
C13_SamplingStride ==
    video.opened =>
        /\ frame_skip = StrideOfDuration(video.fps, video.total_frames)
        /\ stage.sampled =
               MultiplesBelow(Min2(frame_num, video.total_frames), frame_skip)

\* C13 witness: a video of one frame more than 1800 s at 4 frames per second,
\* scanned to its end with every fourth frame compared.
C13_Witness ==
    /\ Returned
    /\ video.fps = 4
    /\ video.total_frames = LongVideoSeconds * 4 + 1
    /\ frame_skip = 4
    /\ stage.sampled = LongVideoSeconds + 1

(***************************************************************************)
(* Claims about the construction, checked under SpecConfig.                *)
(***************************************************************************)
\* The value in effect for a setting: the argument when one was supplied,
\* else the environment variable, else the default.
InEffect(supplied, variable, default) ==
    IF supplied /= None THEN supplied
    ELSE IF variable /= None THEN variable
    ELSE default

\* C14: a value supplied for threshold, min_change or min_segment_duration
\* is the value in effect, 0 included; the environment variable or the
\* default is in effect only when no value is supplied.
C14_SuppliedValueInEffect ==
    pc = "start" =>
        /\ self.threshold =
               InEffect(args.threshold, env.VIDEO_THRESHOLD, DefaultThreshold)
        /\ self.min_change =
               InEffect(args.min_change, env.MIN_CHANGE, DefaultMinChange)
        /\ self.min_segment_duration =
               InEffect(args.min_segment_duration, env.MIN_SEGMENT_DURATION,
                        DefaultMinSegmentDuration)

(***************************************************************************)
(* Claims about the scan, checked under SpecVideo.                         *)
(***************************************************************************)
\* The j-th sampled frame of the video, the blank screen before the first.
SampledFrame(j) ==
    IF j < 0 THEN Blank ELSE video.frames[j * frame_skip + 1]

\* The capture time of the j-th sampled frame, 0 before the first.
SampledTime(j) ==
    IF j < 0 THEN 0 ELSE Timestamp(video.fps, j * frame_skip)

\* The j-th comparison is changed: more than min_change pixels differ by
\* more than the threshold between sampled frame j - 1 and sampled frame j.
Changed(j) ==
    LET differing == IF Abs(SampledFrame(j - 1) - SampledFrame(j)) > self.threshold
                     THEN video.frame_width * video.frame_height ELSE 0
    IN  differing > self.min_change

\* The comparisons before the j-th, up to WindowSize of them, were unchanged.
StableBefore(j) ==
    \A i \in 0..(j - 1) : i >= j - WindowSize => ~Changed(i)

\* C15: during the scan a boundary is held at a sampled frame exactly when
\* its comparison is changed and the comparisons before it, up to 5, were
\* unchanged; it carries the sampled frame before it and that frame's
\* capture time, not the frame the video changed to.
C15_BoundaryAtChangeAfterStable ==
    pc = "scan" =>
        /\ DOMAIN selected_frames \subseteq
               { j * frame_skip : j \in 0..(stage.sampled - 1) }
        /\ \A j \in 0..(stage.sampled - 1) :
               /\ (j * frame_skip \in DOMAIN selected_frames)
                      <=> (Changed(j) /\ StableBefore(j))
               /\ (j * frame_skip \in DOMAIN selected_frames) =>
                      /\ selected_frames[j * frame_skip].frame = SampledFrame(j - 1)
                      /\ selected_frames[j * frame_skip].timestamp = SampledTime(j - 1)
                      /\ selected_frames[j * frame_skip].frame /= SampledFrame(j)

\* C15 witness: a boundary at a sampled frame after the first, a changed
\* comparison without a boundary, and a stride of more than one frame.
C15_Witness ==
    /\ pc = "scan"
    /\ frame_skip > 1
    /\ \E j \in 1..(stage.sampled - 1) : j * frame_skip \in DOMAIN selected_frames
    /\ \E j \in 1..(stage.sampled - 1) :
           Changed(j) /\ j * frame_skip \notin DOMAIN selected_frames

\* C16: the tracker holds at most 5 entries, the results of the most recent
\* comparisons in the order they were made (before them the entries it was
\* made with, all False), one result per sampled frame whether or not a
\* boundary was saved; it is stable exactly when every entry is False.
C16_WindowOfRecentChanges ==
    LET n == Len(prev_video_changes)
    IN  /\ n <= WindowSize
        /\ \A i \in 1..n :
               LET j == stage.sampled - n + i - 1
               IN  prev_video_changes[i] = (IF j < 0 THEN FALSE ELSE Changed(j))
        /\ are_previous_frames_stable(prev_video_changes)
               <=> (\A i \in 1..n : prev_video_changes[i] = FALSE)

\* C16 witness: more comparisons than the tracker holds, the first of them
\* changed and no longer held, a later one changed without a boundary.
C16_Witness ==
    /\ pc = "scan"
    /\ stage.sampled > WindowSize
    /\ Changed(0)
    /\ \E i \in 1..Len(prev_video_changes) :
           /\ prev_video_changes[i]
           /\ (stage.sampled - Len(prev_video_changes) + i - 1) * frame_skip
                  \notin DOMAIN selected_frames
    /\ ~are_previous_frames_stable(prev_video_changes)

(***************************************************************************)
(* Claims about the boundaries after the scan, checked under SpecVideo.    *)
(***************************************************************************)
\* The scan has ended and the last frame was added.
Scanned == pc \in {"filter", "blank", "limit", "minimum", "done"}

\* C17: the boundary added at the end of the stream is the last boundary of
\* the raw map and carries the last frame read from the stream and that
\* frame's capture time.
C17_FinalBoundaryIsLastFrameRead ==
    (Scanned /\ video.frames /= <<>>) =>
        /\ frame_num = MaxOfSet(DOMAIN stage.raw)
        /\ stage.raw[frame_num].frame = video.frames[Len(video.frames)]
        /\ stage.raw[frame_num].timestamp =
               Timestamp(video.fps, Len(video.frames) - 1)

\* C18: when at least 2 boundaries remain after the reduction, the last
\* boundary of the returned map is the boundary added at the end of the
\* stream.
C18_LastBoundaryKept ==
    (Returned /\ Count(stage.limited) >= 2) =>
        /\ MaxOfSet(DOMAIN selected_frames) = frame_num
        /\ selected_frames[frame_num] = stage.raw[frame_num]

\* C19: the segment filtering drops a raw boundary exactly when it is less
\* than min_segment_duration after the raw boundary before it, dropped or
\* not; the first raw boundary stays, and what stays is unchanged.
C19_FilterByRawNeighbour ==
    (Scanned /\ pc /= "filter") =>
        LET nums == Sorted(DOMAIN stage.raw)
        IN  /\ DOMAIN stage.filtered \subseteq DOMAIN stage.raw
            /\ \A k \in DOMAIN stage.filtered : stage.filtered[k] = stage.raw[k]
            /\ nums /= <<>> => nums[1] \in DOMAIN stage.filtered
            /\ \A i \in 2..Len(nums) :
                   (nums[i] \notin DOMAIN stage.filtered)
                       <=> (stage.raw[nums[i]].timestamp
                                - stage.raw[nums[i - 1]].timestamp
                                    < self.min_segment_duration)

\* C19 witness: two boundaries in a row are dropped, the second of them at
\* least min_segment_duration after the boundary that stays.
C19_Witness ==
    /\ Scanned
    /\ pc /= "filter"
    /\ LET nums == Sorted(DOMAIN stage.raw)
       IN  \E i \in 3..Len(nums) :
               /\ nums[i - 2] \in DOMAIN stage.filtered
               /\ nums[i - 1] \notin DOMAIN stage.filtered
               /\ nums[i] \notin DOMAIN stage.filtered
               /\ stage.raw[nums[i]].timestamp - stage.raw[nums[i - 2]].timestamp
                      >= self.min_segment_duration

\* C20: the boundary removed as the blank lead is the one that carries the
\* blank screen the scan starts with, which is the boundary at frame 0;
\* every other boundary carries a frame of the video and is not removed.
C20_OnlyBlankLeadRemoved ==
    pc \in {"limit", "minimum", "done"} =>
        \A k \in (DOMAIN stage.filtered) \ (DOMAIN stage.unblanked) : k = 0

(***************************************************************************)
(* Claims about the position of a time break, checked under SpecSubtitle.  *)
(***************************************************************************)
\* The number of characters of the transcript before a position.
RECURSIVE Offset(_, _)
Offset(ps, pos) ==
    IF pos[1] <= 0 THEN pos[2]
    ELSE Len(ps[pos[1]].text) + Offset(ps, <<pos[1] - 1, pos[2]>>)

\* The time breaks before and after the k-th time break of a list.
PrevBreak(times, k) == IF k > 1 THEN times[k - 1] ELSE 0
NextBreak(times, k) == IF k < Len(times) THEN times[k + 1] ELSE Infinity

\* The k-th time break lies in a part: its position is looked for from an
\* estimate, not set to the end of the subtitles.
Estimated(ps, times, k) ==
    /\ ps /= <<>>
    /\ times[k] < EndTime(ps)
    /\ \E p \in DOMAIN ps : ps[p].start_time <= times[k] /\ times[k] < ps[p].end_time

\* The estimate of the k-th time break: the part that holds it and the
\* character at the same fraction of the text as the time is of the part.
Estimate(ps, times, k) ==
    LET p == CHOOSE q \in DOMAIN ps :
                 ps[q].start_time <= times[k] /\ times[k] < ps[q].end_time
    IN  <<p - 1, ((times[k] - ps[p].start_time) * Len(ps[p].text))
                     \div (ps[p].end_time - ps[p].start_time)>>

\* The index of the part that holds a time, or the default without one.
PartOfTime(ps, t, default) ==
    IF \E p \in DOMAIN ps : ps[p].start_time <= t /\ t < ps[p].end_time
    THEN (CHOOSE p \in DOMAIN ps : ps[p].start_time <= t /\ t < ps[p].end_time) - 1
    ELSE default

\* The positions of the periods of the transcript.
Periods(ps) ==
    UNION { { <<p - 1, c - 1>> : c \in { d \in DOMAIN ps[p].text : ps[p].text[d] = "." } } :
            p \in DOMAIN ps }

\* The period of a set nearest to a position, the left one of two equally
\* near; none when the set is empty.
IsNearest(ps, q, candidates, est) ==
    /\ q \in candidates
    /\ \A r \in candidates :
           LET dq == Abs(Offset(ps, q) - Offset(ps, est))
               dr == Abs(Offset(ps, r) - Offset(ps, est))
           IN  dq < dr \/ (dq = dr /\ NotAfter(q, r))

\* The periods the scan for the k-th time break may reach: to the left in
\* the parts from the one of the previous break on, to the right in the
\* parts before the one of the next break.
ReachablePeriods(ps, times, k) ==
    LET est == Estimate(ps, times, k)
        lower == PartOfTime(ps, PrevBreak(times, k), 0)
        upper == PartOfTime(ps, NextBreak(times, k), Len(ps))
    IN  { q \in Periods(ps) :
            \/ NotAfter(q, est) /\ q[1] >= lower
            \/ NotAfter(est, q) /\ q[1] < upper }

\* C21: when the scan for a time break can reach a period, the position of
\* the break is the period nearest to the estimate, counted in characters
\* across parts, and the left one of two equally near.
C21_NearestPeriod ==
    \A k \in DOMAIN part_positions :
        (Estimated(parts, video_segment_end_times, k)
            /\ ReachablePeriods(parts, video_segment_end_times, k) /= {})
        => IsNearest(parts, part_positions[k],
                     ReachablePeriods(parts, video_segment_end_times, k),
                     Estimate(parts, video_segment_end_times, k))

\* C21 witness: a break whose estimate has a period at the same distance on
\* either side, and a break whose nearest period lies in the next part.
C21_Witness ==
    /\ SegmentsReturned
    /\ \E k \in DOMAIN part_positions :
           /\ Estimated(parts, video_segment_end_times, k)
           /\ LET est == Estimate(parts, video_segment_end_times, k)
              IN  \E l, r \in ReachablePeriods(parts, video_segment_end_times, k) :
                      /\ Before(l, est) /\ Before(est, r)
                      /\ Offset(parts, est) - Offset(parts, l)
                             = Offset(parts, r) - Offset(parts, est)
                      /\ part_positions[k] = l

\* The periods in the parts from the one of the previous break to the one
\* of the next break, both included.
PeriodsBetweenBreaks(ps, times, k) ==
    LET lower == PartOfTime(ps, PrevBreak(times, k), 0)
        upper == PartOfTime(ps, NextBreak(times, k), Len(ps) - 1)
    IN  { q \in Periods(ps) : lower <= q[1] /\ q[1] <= upper }

\* C22: the scan for a time break covers, to the left and to the right,
\* every part from the one of the previous break to the one of the next
\* break, that one included: when these parts hold a period, the position
\* of the break is the nearest of their periods.
C22_ScanCoversClosedRange ==
    Ascending(video_segment_end_times) =>
        \A k \in DOMAIN part_positions :
            (Estimated(parts, video_segment_end_times, k)
                /\ PeriodsBetweenBreaks(parts, video_segment_end_times, k) /= {})
            => IsNearest(parts, part_positions[k],
                         PeriodsBetweenBreaks(parts, video_segment_end_times, k),
                         Estimate(parts, video_segment_end_times, k))

\* C23: the estimate itself is the position of a time break only when it is
\* a period or no part of the whole list holds a period.
C23_EstimateOnlyWithoutPeriods ==
    Ascending(video_segment_end_times) =>
        \A k \in DOMAIN part_positions :
            (Estimated(parts, video_segment_end_times, k) /\ Periods(parts) /= {})
            => part_positions[k] \in Periods(parts)

(***************************************************************************)
(* Claims about the segments, checked under SpecSubtitle.                  *)
(***************************************************************************)
\* The text of the transcript from a position to its end, parts joined
\* with single spaces.
TranscriptFrom(ps, start) ==
    Join([i \in 1..(Len(ps) - start[1]) |->
            IF i = 1 THEN SliceFrom(ps[start[1] + 1].text, start[2])
            ELSE ps[start[1] + i].text])

\* The k-th time break is at or after the end of the last part.
AtOrAfterEnd(ps, times, k) == ps /= <<>> /\ times[k] >= ps[Len(ps)].end_time

\* C24 as stated: a time break at or after the end of the last part has the
\* position of the last character of the last part; the segment of the first
\* such break holds all words of the transcript from its start position on,
\* and the segment of every later such break is empty.
C24_BreakAfterEndTakesRest ==
    Ascending(video_segment_end_times) =>
        /\ \A k \in DOMAIN part_positions :
               AtOrAfterEnd(parts, video_segment_end_times, k)
               => part_positions[k] = <<Len(parts) - 1, Len(parts[Len(parts)].text) - 1>>
        /\ \A k \in DOMAIN segments :
               AtOrAfterEnd(parts, video_segment_end_times, k)
               => IF k > 1 /\ AtOrAfterEnd(parts, video_segment_end_times, k - 1)
                  THEN segments[k] = <<>>
                  ELSE Split(segments[k]) = Split(TranscriptFrom(parts, used[k].start))

(***************************************************************************)
(* Claims about the text of the segments, checked under SpecSubtitle.      *)
(***************************************************************************)
\* The characters of a text from index first to index last, both included.
Piece(text, first, last) == SubSeq(text, first + 1, Min2(last + 1, Len(text)))

\* A piece as it is joined: with the blanks at its ends removed or kept.
Trimmed(text, stripped) == IF stripped THEN Strip(text) ELSE text

\* The raw segment of the description: nothing from a start after the end,
\* the piece between them in one part, and otherwise the tail of the first
\* part, the parts between and the head of the last part, with one blank
\* between each two.
BuiltSegment(ps, start, end, stripped) ==
    IF Before(end, start) THEN <<>>
    ELSE IF start[1] = end[1]
    THEN Piece(ps[start[1] + 1].text, start[2], end[2])
    ELSE LET tail == Piece(ps[start[1] + 1].text, start[2],
                           Len(ps[start[1] + 1].text) - 1)
             between == [p \in 1..(end[1] - start[1] - 1) |-> ps[start[1] + 1 + p].text]
             head == Piece(ps[end[1] + 1].text, 0, end[2])
         IN  Join(<<Trimmed(tail, stripped)>> \o between \o <<Trimmed(head, stripped)>>)

\* C25 as stated: each raw segment is empty for a start after the end, the
\* inclusive piece of one part, or the tail, the parts between and the head
\* exactly as they are cut, joined with single blanks.
C25_RawSegmentAsCut ==
    \A k \in DOMAIN used :
        used[k].raw = BuiltSegment(parts, used[k].start, used[k].end, FALSE)

\* C25 amended: as stated, except that the tail and the head lose the
\* blanks at their ends before they are joined.
C25_RawSegmentTailAndHeadStripped ==
    \A k \in DOMAIN used :
        used[k].raw = BuiltSegment(parts, used[k].start, used[k].end, TRUE)

\* C25 witness: a returned segment that runs over a whole part between its
\* first and last part, and one whose tail begins with a blank.
C25_Witness ==
    /\ SegmentsReturned
    /\ \E k \in DOMAIN used :
           /\ used[k].end[1] - used[k].start[1] >= 2
           /\ used[k].start[2] > 0
           /\ used[k].end[2] + 1 < Len(parts[used[k].end[1] + 1].text)
           /\ used[k].raw /= <<>>
    /\ \E k \in DOMAIN used :
           /\ used[k].start[1] < used[k].end[1]
           /\ used[k].raw /= BuiltSegment(parts, used[k].start, used[k].end, FALSE)

\* The text of the transcript from its start to a position, the character
\* at the position included, parts joined with single spaces.
TranscriptUpTo(ps, end) ==
    Join([i \in 1..(end[1] + 1) |->
            IF i = end[1] + 1 THEN Piece(ps[i].text, 0, end[2]) ELSE ps[i].text])

\* The characters of a text that are not blanks, in order.
Letters(text) == SelectSeq(text, LAMBDA c : c \notin Whitespace)

\* The characters of a list of texts that are not blanks, in order.
RECURSIVE LettersOf(_)
LettersOf(texts) ==
    IF texts = <<>> THEN <<>> ELSE Letters(Head(texts)) \o LettersOf(Tail(texts))

\* C26: for ascending time breaks no word is lost between the segments:
\* the segments returned hold, in order, every word of the transcript from
\* position (0, 0) to the last end position, a word dropped from the end of
\* a segment as incomplete included.
C26_NoWordLost ==
    (SegmentsReturned /\ Ascending(video_segment_end_times) /\ part_positions /= <<>>)
    => LettersOf(segments)
           = Letters(TranscriptUpTo(parts, part_positions[Len(part_positions)]))

\* C27: for parts that are not empty, texts that are empty included, and
\* ascending time breaks, no character is read outside the text of a part:
\* get_subtitle_segments does not end with an IndexError.
C27_NoIndexError ==
    (parts /= <<>> /\ Ascending(video_segment_end_times)) => sub_pc /= "raised"

(***************************************************************************)
(* Claims about __find_part__, checked under SpecFindPart.                 *)
(***************************************************************************)
\* The parts of a list that hold a time.
PartsHolding(ps, t) ==
    { p \in DOMAIN ps : ps[p].start_time <= t /\ t < ps[p].end_time }

\* C28: for parts sorted by start time that do not overlap, __find_part__
\* returns the index of the one part with start_time <= t < end_time, and
\* None when no part holds t, as a search of the parts one by one does.
C28_FindPartIsLinearSearch ==
    find_pc = "returned"
    => /\ Cardinality(PartsHolding(parts, find_time)) <= 1
       /\ \A p \in PartsHolding(parts, find_time) : found = p - 1
       /\ PartsHolding(parts, find_time) = {} => found = None

\* C28 witness: in a list of four parts with a gap in it, the last part is
\* found for a time that follows a gap.
C28_Witness ==
    /\ find_pc = "returned"
    /\ Len(parts) = 4
    /\ parts[4].start_time > parts[3].end_time
    /\ find_time = parts[4].start_time
    /\ found = 3

(***************************************************************************)
(* Claims about the fields of a boundary, checked under SpecVideo.         *)
(***************************************************************************)
\* The fields of the frame data kept for a boundary; the frame number is
\* its key in the map.
SegmentBoundaryFields == {"timestamp", "frame", "mask", "num_pixels_changed"}

\* C29: every boundary of the map returned has all fields of a boundary:
\* timestamp, frame, mask and number of pixels changed.
C29_BoundariesHaveAllFields ==
    Returned =>
        \A n \in DOMAIN selected_frames :
            SegmentBoundaryFields \subseteq DOMAIN selected_frames[n]

(***************************************************************************)
(* Claims about worker_loop, checked under SpecWorker.                     *)
(***************************************************************************)
\* worker_loop has made its last write for every process_video of a task
\* that has ended.
RoundsEnded(v) == runs[v] /= <<>> /\ Len(writes[v]) = 2 * Len(runs[v])

\* C30: the statuses written for a task are in_progress, then done when
\* process_video returned and failed when it raised, one of the two and
\* never done after a failure; and after that write the status of the task
\* is not in_progress.
C30_StatusOrder ==
    \A v \in DOMAIN writes :
        /\ \A i \in DOMAIN writes[v] :
               writes[v][i].status =
                   IF i % 2 = 1 THEN "in_progress"
                   ELSE IF runs[v][i \div 2] = "returned" THEN "done" ELSE "failed"
        /\ RoundsEnded(v) => tasks[v] /= "in_progress"

====
